---- MODULE Spec2Model ----
(***************************************************************************)
(* SHORTLY: a URL shortener (Flask + SQLite).                              *)
(*                                                                         *)
(* The model follows src/Simple_url_shortener.py statement by statement:   *)
(* the urls table is `store`, every request handler is a small-step        *)
(* process whose steps are the handler's SQL statements and clock reads,   *)
(* the cleanup thread is the reaper, and rate_limit_guard works on         *)
(* request_log.  Strings are sequences of one-character strings, so that   *)
(* strip, startswith and urlparse are computed and not assumed.            *)
(*                                                                         *)
(* Time: `now` is datetime.now() counted in days, `clock` is time.time()   *)
(* counted in seconds.                                                     *)
(***************************************************************************)
EXTENDS Integers, Sequences, FiniteSets, TLC

VARIABLES
    store,        \* the urls table: code -> row, or NoRow
    now,          \* datetime.now(), in days
    h,            \* the request handlers (threads): pc and locals
    out,          \* the response the last step sent, with its request (or NoOut)
    reaper,       \* the cleanup thread: its pc, the now_str it read, the
                  \* codes its last DELETE removed, whether a cycle has raised
    last,         \* sequential runs: the last response sent
    prev,         \* sequential runs: the response sent before `last`
    started,      \* concurrent runs: requests begun so far
    clicks_ok,    \* per code: redirects returned since the row was inserted
    overlapped,   \* target URLs for which two shorten calls have overlapped
    request_log,  \* rate limiter: client -> deque of admission timestamps
    clock,        \* time.time(), in seconds
    admitted,     \* per client: every timestamp ever admitted (never pruned)
    last_attempt, \* per client: the time and outcome of its last shorten attempt
    gate,         \* the last decision of before_every_request
    g             \* the threads inside rate_limit_guard: pc, ip and now

vars == <<store, now, h, out, reaper, last, prev, started, clicks_ok, overlapped,
          request_log, clock, admitted, last_attempt, gate, g>>

coreVars == <<store, now, h, out, reaper, clicks_ok, overlapped>>
histVars == <<last, prev, started>>
rateVars == <<request_log, clock, admitted, last_attempt, gate, g>>

---------------------------------------------------------------------------
(* Bounds of the model *)

MaxNow == 2          \* days the clock may advance
MaxClicks == 1       \* a resolve starts only below this click_count
MaxRequests == 3     \* concurrent runs: requests that may begin
MaxClockTicks == 2   \* rate limiter: ticks of TickSec seconds the clock may advance

(* Program constants *)

RATE_LIMIT == 30
RATE_WINDOW_SEC == 60
MaxAttempts == 10
CodeLength == 7
DefaultExpiryDays == 7
MinExpiryDays == 1
MaxExpiryDays == 365

Null == -1           \* SQL NULL / Python None in a timestamp column

---------------------------------------------------------------------------
(* Strings *)

HTTP == <<"h","t","t","p",":","/","/">>
HTTPS == <<"h","t","t","p","s",":","/","/">>

Whitespace == {" "}
Letters == {"a","c","f","h","o","p","s","t","H","T","P","S"}
Digits == {"0","1","2","3","4","5","6","7","8","9"}
SchemeChars == Letters \cup Digits \cup {"+","-","."}

startswith(s, pre) ==
    /\ Len(s) >= Len(pre)
    /\ SubSeq(s, 1, Len(pre)) = pre

RECURSIVE lstrip(_)
lstrip(s) ==
    IF s # <<>> /\ Head(s) \in Whitespace THEN lstrip(Tail(s)) ELSE s

RECURSIVE rstrip(_)
rstrip(s) ==
    IF s # <<>> /\ s[Len(s)] \in Whitespace
    THEN rstrip(SubSeq(s, 1, Len(s) - 1))
    ELSE s

strip(s) == rstrip(lstrip(s))

\* str.find: the first index (1-based) of a character of cs in s at or after
\* from, or 0
RECURSIVE find(_, _, _)
find(s, cs, from) ==
    IF from > Len(s) THEN 0
    ELSE IF s[from] \in cs THEN from
    ELSE find(s, cs, from + 1)

lower(c) ==
    CASE c = "H" -> "h"
      [] c = "T" -> "t"
      [] c = "P" -> "p"
      [] c = "S" -> "s"
      [] OTHER -> c

\* urllib.parse.urlsplit: the scheme is what precedes the first ":" when that
\* is a letter followed by scheme characters; the netloc is what follows "//"
\* up to the first of "/", "?", "#".
urlparse(url) ==
    LET i == find(url, {":"}, 1)
        has_scheme == /\ i > 1
                      /\ url[1] \in Letters
                      /\ \A k \in 1..(i - 1) : url[k] \in SchemeChars
        scheme == IF has_scheme THEN [k \in 1..(i - 1) |-> lower(url[k])] ELSE <<>>
        rest == IF has_scheme THEN SubSeq(url, i + 1, Len(url)) ELSE url
        delim == find(rest, {"/","?","#"}, 3)
        netloc == IF startswith(rest, <<"/","/">>)
                  THEN SubSeq(rest, 3, IF delim = 0 THEN Len(rest) ELSE delim - 1)
                  ELSE <<>>
    IN [scheme |-> scheme, netloc |-> netloc]

Ok(v) == [ok |-> TRUE, v |-> v, err |-> "none"]
Raise(e) == [ok |-> FALSE, v |-> <<>>, err |-> e]

\* A raw org_url field of the JSON body: absent/null, or a string
NoneUrl == [none |-> TRUE, s |-> <<>>]
Str(s) == [none |-> FALSE, s |-> s]

\* a variant that defaults to http://
AddDefaultScheme_http(u) ==
    IF startswith(u, HTTP) \/ startswith(u, HTTPS) THEN u ELSE HTTP \o u

\* if not org_url.startswith(("http://", "https://")): "https://" + org_url
AddDefaultScheme(u) ==
    IF startswith(u, HTTP) \/ startswith(u, HTTPS) THEN u ELSE HTTPS \o u

normalize_url(org_url) ==
    IF org_url.none THEN Raise("ValueError")
    ELSE LET stripped == strip(org_url.s)
             u == AddDefaultScheme(stripped)
             parsed == urlparse(u)
         IN IF stripped = <<>> THEN Raise("ValueError")
            ELSE IF parsed.scheme \notin {<<"h","t","t","p">>, <<"h","t","t","p","s">>}
                 THEN Raise("ValueError")
            ELSE IF parsed.netloc = <<>> THEN Raise("ValueError")
            ELSE Ok(u)

---------------------------------------------------------------------------
(* expiry_days *)

\* A raw expiry_days field of the JSON body.  A float is given in tenths
\* (25 is 2.5); a string is a sequence of characters.
DaysOmitted == [k |-> "omitted", n |-> 0, s |-> <<>>]
DaysNull == [k |-> "null", n |-> 0, s |-> <<>>]
DaysInt(n) == [k |-> "int", n |-> n, s |-> <<>>]
DaysFloat(tenths) == [k |-> "float", n |-> tenths, s |-> <<>>]
DaysStr(s) == [k |-> "str", n |-> 0, s |-> s]
DaysList == [k |-> "list", n |-> 0, s |-> <<>>]

DigitValue(c) ==
    CASE c = "0" -> 0 [] c = "1" -> 1 [] c = "2" -> 2 [] c = "3" -> 3
      [] c = "4" -> 4 [] c = "5" -> 5 [] c = "6" -> 6 [] c = "7" -> 7
      [] c = "8" -> 8 [] c = "9" -> 9

RECURSIVE DecimalValue(_, _)
DecimalValue(s, acc) ==
    IF s = <<>> THEN acc
    ELSE DecimalValue(Tail(s), 10 * acc + DigitValue(Head(s)))

\* Python's int(x): an int is itself, a float is truncated toward zero, a
\* string must be (after strip) an optional sign and decimal digits, and
\* anything else is a TypeError.
int(x) ==
    CASE x.k = "int" -> Ok(x.n)
      [] x.k = "float" ->
            Ok(IF x.n >= 0 THEN x.n \div 10 ELSE 0 - ((0 - x.n) \div 10))
      [] x.k = "str" ->
            LET t == strip(x.s)
                signed == t # <<>> /\ Head(t) \in {"+","-"}
                digits == IF signed THEN Tail(t) ELSE t
            IN IF digits # <<>> /\ \A i \in 1..Len(digits) : digits[i] \in Digits
               THEN Ok(IF signed /\ Head(t) = "-"
                       THEN 0 - DecimalValue(digits, 0)
                       ELSE DecimalValue(digits, 0))
               ELSE Raise("ValueError")
      [] OTHER -> Raise("TypeError")

InExpiryRange(n) == ~(n < MinExpiryDays \/ n > MaxExpiryDays)

parse_expiry_days(expiry_days) ==
    IF expiry_days.k = "null" THEN Ok(DefaultExpiryDays)
    ELSE LET n == int(expiry_days)
         IN IF ~n.ok THEN n
            ELSE IF ~InExpiryRange(n.v) THEN Raise("ValueError")
            ELSE n

\* data.get("expiry_days", 7): an omitted field is the int 7
body_expiry_days(raw) ==
    IF raw.k = "omitted" THEN DaysInt(DefaultExpiryDays) ELSE raw

---------------------------------------------------------------------------
(* The urls table *)

\* The strings of length 7 and of length 8 that the draws can produce
Codes7 == {"a"}
Codes8 == {"A"}
Codes == Codes7 \cup Codes8

\* secrets.choice over BASE62, `length` times: the codes it can return
generate_short_url(length) == IF length = CodeLength THEN Codes7 ELSE Codes8

NoRow == [absent |-> TRUE]

Row(org_url, created_at, expires_at) ==
    [absent |-> FALSE, org_url |-> org_url, created_at |-> created_at,
     expires_at |-> expires_at, click_count |-> 0, last_accessed |-> Null]

Present(c) == ~store[c].absent

\* variants: no row is ever expired; a row is expired from expires_at on
IsExpired_never(expires_at, t) == FALSE
IsExpired_inclusive(expires_at, t) == expires_at <= t

\* exp_dt < now, for a stored expires_at that parses
IsExpired(expires_at, t) == expires_at < t

Live(c, t) == Present(c) /\ ~(store[c].expires_at # Null /\ IsExpired(store[c].expires_at, t))

---------------------------------------------------------------------------
(* Requests, responses, handler threads *)

Procs == {1, 2}

NoReq == [org_url |-> NoneUrl, expiry_days |-> DaysOmitted, short_id |-> ""]
ShortenReq(u, d) == [org_url |-> u, expiry_days |-> d, short_id |-> ""]
CodeReq(c) == [org_url |-> NoneUrl, expiry_days |-> DaysOmitted, short_id |-> c]

\* status; the code and expiry a shorten answers with; the Location of a
\* redirect, or info's org_url; info's click_count.  For a resolve,
\* expires_at is the expiry it read from the row.
Response(status, short_id, org_url, expires_at, click_count) ==
    [status |-> status, short_id |-> short_id, org_url |-> org_url,
     expires_at |-> expires_at, click_count |-> click_count]

NoResponse == Response(0, "", <<>>, Null, 0)

\* a handler thread between requests
Idle ==
    [pc |-> "idle", op |-> "none", req |-> NoReq,
     org_url |-> <<>>, expiry_days |-> 0, found |-> FALSE, short_id |-> "",
     expires_at |-> Null, expiry_date |-> Null, attempt |-> 0]

Running(op, req, pc) == [Idle EXCEPT !.op = op, !.req = req, !.pc = pc]

Sent(op, req, resp) == [op |-> op, req |-> req, resp |-> resp]

NoOut == Sent("none", NoReq, NoResponse)

\* the handler returns its response and its thread is free again
Return(p, resp) ==
    /\ h' = [h EXCEPT ![p] = Idle]
    /\ out' = Sent(h[p].op, h[p].req, resp)

Quiet == (\A p \in Procs : h[p].pc = "idle") /\ reaper.pc = "sleep"

---------------------------------------------------------------------------
(* shorten_url: POST /shorten, after before_every_request admitted it *)

\* Whether another handler is inside shorten_url for the same target URL
OverlapsShorten(p, u) ==
    \E q \in Procs \ {p} :
        h[q].pc # "idle" /\ h[q].op = "shorten" /\ h[q].org_url = u

\* normalize_url and parse_expiry_days inside the try block: a ValueError is
\* answered 400, any other exception escapes as a 500.
shorten_url_begin(p, u, d) ==
    /\ h[p].pc = "idle"
    /\ LET req == ShortenReq(u, d)
           n == normalize_url(u)
           e == IF n.ok THEN parse_expiry_days(body_expiry_days(d)) ELSE n
       IN /\ h' = [h EXCEPT ![p] =
                    IF e.ok
                    THEN [Running("shorten", req, "s_select") EXCEPT
                            !.org_url = n.v, !.expiry_days = e.v]
                    ELSE Idle]
          /\ out' = IF e.ok THEN NoOut
                    ELSE Sent("shorten", req,
                            Response(IF e.err = "ValueError" THEN 400 ELSE 500,
                                     "", <<>>, Null, 0))
          /\ overlapped' = IF e.ok /\ OverlapsShorten(p, n.v)
                           THEN overlapped \cup {n.v} ELSE overlapped
    /\ UNCHANGED <<store, now, reaper, clicks_ok>>
    /\ UNCHANGED rateVars

\* the rows that SELECT ... FROM urls WHERE org_url=? matches
\* a variant whose SELECT matches no row
MatchingRows_none(org_url) == {}

MatchingRows(org_url) == {c \in Codes : Present(c) /\ store[c].org_url = org_url}

\* SELECT id, expires_at FROM urls WHERE org_url=?; fetchone()
shorten_url_select(p) ==
    /\ h[p].pc = "s_select"
    /\ LET rows == MatchingRows(h[p].org_url)
       IN IF rows = {}
          THEN h' = [h EXCEPT ![p].pc = "s_now", ![p].found = FALSE]
          ELSE \E c \in rows :
                  h' = [h EXCEPT ![p].pc = "s_now", ![p].found = TRUE,
                                 ![p].short_id = c,
                                 ![p].expires_at = store[c].expires_at]
    /\ out' = NoOut
    /\ UNCHANGED <<store, now, reaper, clicks_ok, overlapped>>
    /\ UNCHANGED rateVars

\* a variant that adds the days to the expiry of the row that was read
expiry_date_additive(p) ==
    (IF h[p].found /\ h[p].expires_at # Null THEN h[p].expires_at ELSE now)
        + h[p].expiry_days

\* expiry_date = now + timedelta(days=expiry_days)
expiry_date(p) == now + h[p].expiry_days

\* now = datetime.now(); expiry_date = ...; then the branch on the row that
\* was read (exp_dt < now)
shorten_url_now(p) ==
    /\ h[p].pc = "s_now"
    /\ h' = [h EXCEPT
               ![p].expiry_date = expiry_date(p),
               ![p].pc = IF ~h[p].found THEN "s_gen"
                         ELSE IF h[p].expires_at # Null /\ IsExpired(h[p].expires_at, now)
                              THEN "s_delete"
                         ELSE "s_update"]
    /\ out' = NoOut
    /\ UNCHANGED <<store, now, reaper, clicks_ok, overlapped>>
    /\ UNCHANGED rateVars

\* DELETE FROM urls WHERE id=?; existing = None
shorten_url_delete(p) ==
    /\ h[p].pc = "s_delete"
    /\ store' = [store EXCEPT ![h[p].short_id] = NoRow]
    /\ clicks_ok' = [clicks_ok EXCEPT ![h[p].short_id] = 0]
    /\ h' = [h EXCEPT ![p].pc = "s_gen", ![p].found = FALSE,
                      ![p].short_id = "", ![p].expires_at = Null]
    /\ out' = NoOut
    /\ UNCHANGED <<now, reaper, overlapped>>
    /\ UNCHANGED rateVars

\* a variant that starts the statistics of the reused row afresh
Extended_afresh(row, t) ==
    [row EXCEPT !.expires_at = t, !.click_count = 0, !.last_accessed = Null]

\* SET expires_at=?
Extended(row, t) == [row EXCEPT !.expires_at = t]

\* UPDATE urls SET expires_at=? WHERE id=?; return 200
shorten_url_update(p) ==
    /\ h[p].pc = "s_update"
    /\ store' = IF Present(h[p].short_id)
                THEN [store EXCEPT ![h[p].short_id] = Extended(@, h[p].expiry_date)]
                ELSE store
    /\ Return(p, Response(200, h[p].short_id, <<>>, h[p].expiry_date, 0))
    /\ UNCHANGED <<now, reaper, clicks_ok, overlapped>>
    /\ UNCHANGED rateVars

\* a variant that finds every candidate free
Taken_never(short_id) == FALSE

\* SELECT 1 FROM urls WHERE id=?; fetchone() is not None
Taken(short_id) == Present(short_id)

\* One pass of the loop: draw a candidate, SELECT 1 FROM urls WHERE id=?;
\* after the last colliding pass, the unchecked draw at length + 1.
generate_unique_short_id(p) ==
    /\ h[p].pc = "s_gen"
    /\ \E short_id \in generate_short_url(CodeLength) :
          IF ~Taken(short_id)
          THEN h' = [h EXCEPT ![p].pc = "s_insert", ![p].short_id = short_id,
                              ![p].attempt = 0]
          ELSE IF h[p].attempt + 1 < MaxAttempts
               THEN h' = [h EXCEPT ![p].attempt = h[p].attempt + 1]
          ELSE \E longer \in generate_short_url(CodeLength + 1) :
                  h' = [h EXCEPT ![p].pc = "s_insert", ![p].short_id = longer,
                                 ![p].attempt = MaxAttempts]
    /\ out' = NoOut
    /\ UNCHANGED <<store, now, reaper, clicks_ok, overlapped>>
    /\ UNCHANGED rateVars

\* INSERT INTO urls (id, org_url, expires_at, click_count) VALUES (?, ?, ?, 0);
\* a duplicate primary key raises sqlite3.IntegrityError, which nothing catches
shorten_url_insert(p) ==
    /\ h[p].pc = "s_insert"
    /\ IF Present(h[p].short_id)
       THEN /\ Return(p, Response(500, "", <<>>, Null, 0))
            /\ UNCHANGED <<store, clicks_ok>>
       ELSE /\ store' = [store EXCEPT ![h[p].short_id] =
                            Row(h[p].org_url, now, h[p].expiry_date)]
            /\ clicks_ok' = [clicks_ok EXCEPT ![h[p].short_id] = 0]
            /\ Return(p, Response(201, h[p].short_id, <<>>, h[p].expiry_date, 0))
    /\ UNCHANGED <<now, reaper, overlapped>>
    /\ UNCHANGED rateVars

---------------------------------------------------------------------------
(* get_original_url: GET /<short_id> *)

get_original_url_begin(p, short_id) ==
    /\ h[p].pc = "idle"
    /\ IF Present(short_id) THEN store[short_id].click_count < MaxClicks ELSE TRUE
    /\ h' = [h EXCEPT ![p] =
               [Running("resolve", CodeReq(short_id), "r_select") EXCEPT
                   !.short_id = short_id]]
    /\ out' = NoOut
    /\ UNCHANGED <<store, now, reaper, clicks_ok, overlapped>>
    /\ UNCHANGED rateVars

\* SELECT org_url, expires_at FROM urls WHERE id=?
get_original_url_select(p) ==
    /\ h[p].pc = "r_select"
    /\ IF ~Present(h[p].short_id)
       THEN Return(p, Response(404, h[p].short_id, <<>>, Null, 0))
       ELSE /\ h' = [h EXCEPT
                      ![p].org_url = store[h[p].short_id].org_url,
                      ![p].expires_at = store[h[p].short_id].expires_at,
                      ![p].pc = IF store[h[p].short_id].expires_at = Null
                                THEN "r_update" ELSE "r_check"]
            /\ out' = NoOut
    /\ UNCHANGED <<store, now, reaper, clicks_ok, overlapped>>
    /\ UNCHANGED rateVars

\* if exp_dt < datetime.now()
get_original_url_check(p) ==
    /\ h[p].pc = "r_check"
    /\ h' = [h EXCEPT ![p].pc = IF IsExpired(h[p].expires_at, now)
                                THEN "r_delete" ELSE "r_update"]
    /\ out' = NoOut
    /\ UNCHANGED <<store, now, reaper, clicks_ok, overlapped>>
    /\ UNCHANGED rateVars

\* a variant in which deleting a row that is already gone is an error
get_original_url_delete_strict(p) ==
    /\ h[p].pc = "r_delete"
    /\ store' = [store EXCEPT ![h[p].short_id] = NoRow]
    /\ clicks_ok' = [clicks_ok EXCEPT ![h[p].short_id] = 0]
    /\ Return(p, Response(IF Present(h[p].short_id) THEN 410 ELSE 500,
                          h[p].short_id, <<>>, h[p].expires_at, 0))
    /\ UNCHANGED <<now, reaper, overlapped>>
    /\ UNCHANGED rateVars

\* DELETE FROM urls WHERE id=?; return 410
get_original_url_delete(p) ==
    /\ h[p].pc = "r_delete"
    /\ store' = [store EXCEPT ![h[p].short_id] = NoRow]
    /\ clicks_ok' = [clicks_ok EXCEPT ![h[p].short_id] = 0]
    /\ Return(p, Response(410, h[p].short_id, <<>>, h[p].expires_at, 0))
    /\ UNCHANGED <<now, reaper, overlapped>>
    /\ UNCHANGED rateVars

\* a variant that overwrites the counter
Clicked_lost(row, t) == [row EXCEPT !.click_count = 1, !.last_accessed = t]

\* SET click_count = click_count + 1, last_accessed = ?
Clicked(row, t) == [row EXCEPT !.click_count = @ + 1, !.last_accessed = t]

\* now_str = datetime.now();
\* UPDATE urls SET click_count = click_count + 1, last_accessed = ? WHERE id = ?;
\* return redirect(original_url)
get_original_url_update(p) ==
    /\ h[p].pc = "r_update"
    /\ store' = IF Present(h[p].short_id)
                THEN [store EXCEPT ![h[p].short_id] = Clicked(@, now)]
                ELSE store
    /\ clicks_ok' = [clicks_ok EXCEPT ![h[p].short_id] =
                        IF Present(h[p].short_id) THEN clicks_ok[h[p].short_id] + 1 ELSE 0]
    /\ Return(p, Response(302, h[p].short_id, h[p].org_url, h[p].expires_at, 0))
    /\ UNCHANGED <<now, reaper, overlapped>>
    /\ UNCHANGED rateVars

---------------------------------------------------------------------------
(* info *)

\* GET /api/info/<short_id>: one SELECT
info(p, short_id) ==
    /\ h[p].pc = "idle"
    /\ out' = Sent("info", CodeReq(short_id),
               IF Present(short_id)
               THEN Response(200, short_id, store[short_id].org_url,
                             store[short_id].expires_at,
                             store[short_id].click_count)
               ELSE Response(404, short_id, <<>>, Null, 0))
    /\ UNCHANGED <<store, now, h, reaper, clicks_ok, overlapped>>
    /\ UNCHANGED rateVars

---------------------------------------------------------------------------
(* cleanup_expired_urls_forever, and the passing of time *)

\* now_str = datetime.now()
cleanup_read_now ==
    /\ reaper.pc = "sleep"
    /\ reaper' = [reaper EXCEPT !.pc = "sweep", !.now_str = now, !.swept = {}]
    /\ out' = NoOut
    /\ UNCHANGED <<store, now, h, clicks_ok, overlapped>>
    /\ UNCHANGED rateVars

\* a variant that also matches the rows that expire at now_str
Swept_inclusive(now_str) ==
    {c \in Codes : /\ Present(c)
                   /\ store[c].expires_at # Null
                   /\ store[c].expires_at <= now_str}

\* the rows that WHERE expires_at IS NOT NULL AND expires_at < ? matches
Swept(now_str) ==
    {c \in Codes : /\ Present(c)
                   /\ store[c].expires_at # Null
                   /\ store[c].expires_at < now_str}

\* DELETE FROM urls WHERE expires_at IS NOT NULL AND expires_at < ?
cleanup_delete ==
    /\ reaper.pc = "sweep"
    /\ LET swept == Swept(reaper.now_str)
       IN /\ store' = [c \in Codes |-> IF c \in swept THEN NoRow ELSE store[c]]
          /\ clicks_ok' = [c \in Codes |-> IF c \in swept THEN 0 ELSE clicks_ok[c]]
          /\ reaper' = [reaper EXCEPT !.pc = "sleep", !.now_str = 0,
                                       !.swept = swept]
    /\ out' = NoOut
    /\ UNCHANGED <<now, h, overlapped>>
    /\ UNCHANGED rateVars

\* a variant in which an error ends the thread
cleanup_fail_dies ==
    /\ reaper.pc = "sweep"
    /\ reaper' = [reaper EXCEPT !.pc = "dead", !.failed = TRUE]
    /\ out' = NoOut
    /\ UNCHANGED <<store, now, h, clicks_ok, overlapped>>
    /\ UNCHANGED rateVars

\* the DELETE or the commit raises: except Exception: pass, and the loop
\* sleeps and goes on to its next cycle
cleanup_fail ==
    /\ reaper.pc = "sweep"
    /\ reaper' = [reaper EXCEPT !.pc = "sleep", !.now_str = 0, !.failed = TRUE]
    /\ out' = NoOut
    /\ UNCHANGED <<store, now, h, clicks_ok, overlapped>>
    /\ UNCHANGED rateVars

Tick ==
    /\ now < MaxNow
    /\ now' = now + 1
    /\ out' = NoOut
    /\ UNCHANGED <<store, h, reaper, clicks_ok, overlapped>>
    /\ UNCHANGED rateVars

---------------------------------------------------------------------------
(* rate_limit_guard: before_every_request on POST /shorten *)

Clients == {"c1", "c2"}

TickSec == RATE_WINDOW_SEC

RECURSIVE DropOld(_, _)
\* while q and now - q[0] > RATE_WINDOW_SEC: q.popleft()
DropOld(q, t) ==
    IF q # <<>> /\ t - Head(q) > RATE_WINDOW_SEC THEN DropOld(Tail(q), t) ELSE q

\* the admissions of ip that lie in the 60 seconds that end at t
AdmittedWithin(ip, t) ==
    {j \in 1..Len(admitted[ip]) :
        admitted[ip][j] <= t /\ t - admitted[ip][j] <= RATE_WINDOW_SEC}

\* a variant that rejects one attempt later
Limited_late(q) == Len(q) > RATE_LIMIT

\* if len(q) >= RATE_LIMIT
Limited(q) == Len(q) >= RATE_LIMIT

rate_limit_guard(ip) ==
    LET q == DropOld(request_log[ip], clock)
        limited == Limited(q)
    IN /\ request_log' = [request_log EXCEPT ![ip] =
                             IF limited THEN q ELSE Append(q, clock)]
       /\ admitted' = [admitted EXCEPT ![ip] =
                             IF limited THEN @ ELSE Append(@, clock)]
       /\ last_attempt' = [last_attempt EXCEPT ![ip] =
                             [made |-> TRUE, at |-> clock, limited |-> limited,
                              recent |-> Cardinality(AdmittedWithin(ip, clock)),
                              ever_limited |-> @.ever_limited \/ limited]]
       /\ UNCHANGED <<clock, g>>

ClockTick ==
    /\ clock < MaxClockTicks * TickSec
    /\ clock' = clock + TickSec
    /\ UNCHANGED <<request_log, admitted, last_attempt, gate, g>>
    /\ UNCHANGED coreVars

---------------------------------------------------------------------------
(* rate_limit_guard statement by statement, for threads that run it at the
   same time on the shared request_log *)

GuardIdle == [pc |-> "idle", ip |-> "", now |-> 0]

GuardFrame ==
    /\ UNCHANGED <<clock, last_attempt, gate>>
    /\ UNCHANGED <<store, now, h, reaper, clicks_ok, overlapped>>

\* the thread leaves rate_limit_guard with this answer
GuardReturn(p, op, status) ==
    /\ g' = [g EXCEPT ![p] = GuardIdle]
    /\ out' = Sent(op, NoReq, Response(status, "", <<>>, Null, 0))

\* ip = ...; now = time.time(); q = request_log[ip]
guard_begin(p, ip) ==
    /\ g[p].pc = "idle"
    /\ g' = [g EXCEPT ![p] = [pc |-> "while", ip |-> ip, now |-> clock]]
    /\ out' = NoOut
    /\ UNCHANGED <<request_log, admitted>>
    /\ GuardFrame

\* while q ...: the truth value of the deque
guard_while(p) ==
    /\ g[p].pc = "while"
    /\ g' = [g EXCEPT ![p].pc = IF request_log[g[p].ip] # <<>>
                                 THEN "head" ELSE "len"]
    /\ out' = NoOut
    /\ UNCHANGED <<request_log, admitted>>
    /\ GuardFrame

\* ... and now - q[0] > RATE_WINDOW_SEC: q[0] of a deque that another
\* thread has emptied raises IndexError
guard_head(p) ==
    /\ g[p].pc = "head"
    /\ IF request_log[g[p].ip] = <<>>
       THEN GuardReturn(p, "shorten", 500)
       ELSE /\ g' = [g EXCEPT ![p].pc =
                        IF g[p].now - Head(request_log[g[p].ip]) > RATE_WINDOW_SEC
                        THEN "popleft" ELSE "len"]
            /\ out' = NoOut
    /\ UNCHANGED <<request_log, admitted>>
    /\ GuardFrame

\* q.popleft(): removes whatever is leftmost by now; IndexError on an
\* empty deque
guard_popleft(p) ==
    /\ g[p].pc = "popleft"
    /\ IF request_log[g[p].ip] = <<>>
       THEN /\ GuardReturn(p, "shorten", 500)
            /\ UNCHANGED request_log
       ELSE /\ request_log' = [request_log EXCEPT ![g[p].ip] = Tail(@)]
            /\ g' = [g EXCEPT ![p].pc = "while"]
            /\ out' = NoOut
    /\ UNCHANGED admitted
    /\ GuardFrame

\* if len(q) >= RATE_LIMIT: return 429
guard_len(p) ==
    /\ g[p].pc = "len"
    /\ IF Limited(request_log[g[p].ip])
       THEN GuardReturn(p, "shorten", 429)
       ELSE /\ g' = [g EXCEPT ![p].pc = "append"]
            /\ out' = NoOut
    /\ UNCHANGED <<request_log, admitted>>
    /\ GuardFrame

\* q.append(now); return None
guard_append(p) ==
    /\ g[p].pc = "append"
    /\ request_log' = [request_log EXCEPT ![g[p].ip] = Append(@, g[p].now)]
    /\ admitted' = [admitted EXCEPT ![g[p].ip] = Append(@, g[p].now)]
    /\ g' = [g EXCEPT ![p] = GuardIdle]
    /\ out' = Sent("admitted", NoReq, NoResponse)
    /\ GuardFrame

NoGate == [ip |-> "", path |-> "", method |-> "", limited |-> FALSE]

\* the request a decision of before_every_request lets through to its route
Admitted(req) == Sent("admitted", req, NoResponse)

\* a variant that guards every route
Guarded_all(path, method) == TRUE

\* if request.path == "/shorten" and request.method == "POST"
Guarded(path, method) == path = "/shorten" /\ method = "POST"

\* @app.before_request: only POST /shorten goes through rate_limit_guard; a
\* rejected request is answered 429 and its route is never entered
before_every_request(ip, path, method, req) ==
    /\ IF Guarded(path, method)
       THEN /\ rate_limit_guard(ip)
            /\ gate' = [ip |-> ip, path |-> path, method |-> method,
                        limited |-> last_attempt'[ip].limited]
       ELSE /\ gate' = [ip |-> ip, path |-> path, method |-> method,
                        limited |-> FALSE]
            /\ UNCHANGED <<request_log, clock, admitted, last_attempt, g>>
    /\ out' = IF gate'.limited
              THEN Sent("shorten", req, Response(429, "", <<>>, Null, 0))
              ELSE Admitted(req)
    /\ UNCHANGED <<store, now, h, reaper, clicks_ok, overlapped>>

\* GET /health
health ==
    /\ out' = Sent("health", NoReq, Response(200, "", <<>>, Null, 0))
    /\ UNCHANGED <<store, now, h, reaper, clicks_ok, overlapped>>
    /\ UNCHANGED rateVars

---------------------------------------------------------------------------
(* Specifications *)

Init ==
    /\ store = [c \in Codes |-> NoRow]
    /\ now = 0
    /\ h = [p \in Procs |-> Idle]
    /\ out = NoOut
    /\ reaper = [pc |-> "sleep", now_str |-> 0, swept |-> {}, failed |-> FALSE]
    /\ last = NoOut
    /\ prev = NoOut
    /\ started = 0
    /\ clicks_ok = [c \in Codes |-> 0]
    /\ overlapped = {}
    /\ request_log = [ip \in Clients |-> <<>>]
    /\ clock = 0
    /\ admitted = [ip \in Clients |-> <<>>]
    /\ gate = NoGate
    /\ g = [p \in Procs |-> GuardIdle]
    /\ last_attempt = [ip \in Clients |->
          [made |-> FALSE, at |-> 0, limited |-> FALSE, recent |-> 0,
           ever_limited |-> FALSE]]

\* The request bodies the handlers are driven with
U_bare == <<"a",".","c","o">>
U_https == HTTPS \o U_bare
U_http == HTTP \o U_bare
U_padded == <<" ">> \o U_bare \o <<" ">>
U_ftp == <<"f","t","p",":","/","/">> \o U_bare
U_nohost == HTTPS
U_path == <<"/","p">>
U_blank == <<" ", " ">>

ConcUrls == {Str(U_bare)}
ConcDays == {DaysInt(1)}

SeqUrls == {Str(U_bare), Str(U_https), Str(U_padded)}
SeqDays == {DaysInt(1), DaysInt(2)}

ValUrls == {NoneUrl, Str(U_bare), Str(U_http), Str(U_ftp), Str(U_nohost),
            Str(U_path), Str(U_blank), Str(<<>>)}
ValDays == {DaysOmitted, DaysNull, DaysInt(0), DaysInt(1), DaysInt(365),
            DaysInt(366), DaysInt(0 - 1), DaysFloat(25), DaysFloat(3659),
            DaysFloat(5), DaysStr(<<"2">>), DaysStr(<<"2",".","5">>),
            DaysStr(<<"a">>), DaysList}

\* every kind of URL with a plain expiry, every kind of expiry with a plain URL
ValReqs == (ValUrls \X {DaysInt(1)}) \cup ({Str(U_bare)} \X ValDays)

\* Concurrent runs keep no history and count the requests begun
Counted == started < MaxRequests /\ started' = started + 1 /\ UNCHANGED <<last, prev>>
Uncounted == UNCHANGED histVars

\* Concurrent handlers, the reaper and the clock, interleaved per statement;
\* at most MaxRequests requests begin
Next ==
    \/ Tick /\ Uncounted
    \/ cleanup_read_now /\ Uncounted
    \/ cleanup_delete /\ Uncounted
    \/ \E p \in Procs : \E u \in ConcUrls, d \in ConcDays :
          shorten_url_begin(p, u, d) /\ Counted
    \/ \E p \in Procs : \E c \in Codes : get_original_url_begin(p, c) /\ Counted
    \/ \E p \in Procs : \E c \in Codes : info(p, c) /\ Counted
    \/ \E p \in Procs : shorten_url_select(p) /\ Uncounted
    \/ \E p \in Procs : shorten_url_now(p) /\ Uncounted
    \/ \E p \in Procs : shorten_url_delete(p) /\ Uncounted
    \/ \E p \in Procs : shorten_url_update(p) /\ Uncounted
    \/ \E p \in Procs : generate_unique_short_id(p) /\ Uncounted
    \/ \E p \in Procs : shorten_url_insert(p) /\ Uncounted
    \/ \E p \in Procs : get_original_url_select(p) /\ Uncounted
    \/ \E p \in Procs : get_original_url_check(p) /\ Uncounted
    \/ \E p \in Procs : get_original_url_delete(p) /\ Uncounted
    \/ \E p \in Procs : get_original_url_update(p) /\ Uncounted

Spec == Init /\ [][Next]_vars

\* Sequential runs remember the last two responses
Remember ==
    /\ IF out' # NoOut
       THEN last' = out' /\ prev' = last
       ELSE UNCHANGED <<last, prev>>
    /\ UNCHANGED started

\* One request at a time: each handler, and each reaper cycle, runs to its end
\* before anything else happens
SeqNext ==
    \/ Quiet /\ Tick /\ Remember
    \/ Quiet /\ cleanup_read_now /\ Remember
    \/ cleanup_delete /\ Remember
    \/ Quiet /\ \E u \in SeqUrls, d \in SeqDays : shorten_url_begin(1, u, d) /\ Remember
    \/ Quiet /\ \E c \in Codes : get_original_url_begin(1, c) /\ Remember
    \/ Quiet /\ \E c \in Codes : info(1, c) /\ Remember
    \/ shorten_url_select(1) /\ Remember
    \/ shorten_url_now(1) /\ Remember
    \/ shorten_url_delete(1) /\ Remember
    \/ shorten_url_update(1) /\ Remember
    \/ generate_unique_short_id(1) /\ Remember
    \/ shorten_url_insert(1) /\ Remember
    \/ get_original_url_select(1) /\ Remember
    \/ get_original_url_check(1) /\ Remember
    \/ get_original_url_delete(1) /\ Remember
    \/ get_original_url_update(1) /\ Remember

SpecSeq == Init /\ [][SeqNext]_vars

\* Sequential shorten and info requests over every kind of request body
ValNext ==
    \/ Quiet /\ \E r \in ValReqs : shorten_url_begin(1, r[1], r[2]) /\ Uncounted
    \/ Quiet /\ \E c \in Codes : info(1, c) /\ Uncounted
    \/ shorten_url_select(1) /\ Uncounted
    \/ shorten_url_now(1) /\ Uncounted
    \/ shorten_url_update(1) /\ Uncounted
    \/ generate_unique_short_id(1) /\ Uncounted
    \/ shorten_url_insert(1) /\ Uncounted

SpecVal == Init /\ [][ValNext]_vars

\* The rate limiter alone: sequential attempts of each client, and time.time()
RateClients == {"c1"}

RateNext ==
    \/ ClockTick /\ Uncounted
    \/ \E ip \in RateClients :
          rate_limit_guard(ip) /\ UNCHANGED gate /\ UNCHANGED coreVars /\ Uncounted

SpecRate == Init /\ [][RateNext]_vars

\* The state after a client's first RATE_LIMIT - 1 requests, made one after
\* another within the same second
AlmostLimited == [i \in 1..(RATE_LIMIT - 1) |-> 0]

InitRateConc ==
    /\ store = [c \in Codes |-> NoRow]
    /\ now = 0
    /\ h = [p \in Procs |-> Idle]
    /\ out = NoOut
    /\ reaper = [pc |-> "sleep", now_str |-> 0, swept |-> {}, failed |-> FALSE]
    /\ last = NoOut
    /\ prev = NoOut
    /\ started = 0
    /\ clicks_ok = [c \in Codes |-> 0]
    /\ overlapped = {}
    /\ request_log = [ip \in Clients |->
          IF ip \in RateClients THEN AlmostLimited ELSE <<>>]
    /\ clock = 0
    /\ admitted = [ip \in Clients |->
          IF ip \in RateClients THEN AlmostLimited ELSE <<>>]
    /\ gate = NoGate
    /\ g = [p \in Procs |-> GuardIdle]
    /\ last_attempt = [ip \in Clients |->
          IF ip \in RateClients
          THEN [made |-> TRUE, at |-> 0, limited |-> FALSE,
                recent |-> RATE_LIMIT - 2, ever_limited |-> FALSE]
          ELSE [made |-> FALSE, at |-> 0, limited |-> FALSE, recent |-> 0,
                ever_limited |-> FALSE]]

\* Two threads inside rate_limit_guard for one client, statement by statement;
\* at most MaxRequests further requests begin
RateConcNext ==
    \/ ClockTick /\ Uncounted
    \/ \E p \in Procs : \E ip \in RateClients : guard_begin(p, ip) /\ Counted
    \/ \E p \in Procs : guard_while(p) /\ Uncounted
    \/ \E p \in Procs : guard_head(p) /\ Uncounted
    \/ \E p \in Procs : guard_popleft(p) /\ Uncounted
    \/ \E p \in Procs : guard_len(p) /\ Uncounted
    \/ \E p \in Procs : guard_append(p) /\ Uncounted

SpecRateConc == InitRateConc /\ [][RateConcNext]_vars

\* The cleanup thread, whose cycles can fail, beside the clock and one
\* handler that shortens.  The loop always comes back from time.sleep, and
\* the store does not fail in every cycle for ever.
ReapNext ==
    \/ Tick /\ Uncounted
    \/ cleanup_read_now /\ Uncounted
    \/ cleanup_delete /\ Uncounted
    \/ cleanup_fail /\ Uncounted
    \/ \E u \in ConcUrls, d \in ConcDays : shorten_url_begin(1, u, d) /\ Counted
    \/ shorten_url_select(1) /\ Uncounted
    \/ shorten_url_now(1) /\ Uncounted
    \/ shorten_url_delete(1) /\ Uncounted
    \/ shorten_url_update(1) /\ Uncounted
    \/ generate_unique_short_id(1) /\ Uncounted
    \/ shorten_url_insert(1) /\ Uncounted

SpecReap ==
    /\ Init
    /\ [][ReapNext]_vars
    /\ WF_vars(cleanup_read_now /\ Uncounted)
    /\ SF_vars(cleanup_delete /\ Uncounted)

\* Requests of two clients, one at a time, each through before_every_request
\* and, when it is let through, through its route
Arriving == h[1].pc = "idle" /\ out.op # "admitted"

Routed(path) == out.op = "admitted" /\ gate.path = path

GateNext ==
    \/ \E ip \in Clients : \E u \in ConcUrls, d \in ConcDays :
          /\ Arriving
          /\ before_every_request(ip, "/shorten", "POST", ShortenReq(u, d))
          /\ Uncounted
    \/ \E ip \in Clients : \E c \in Codes7 :
          /\ Arriving
          /\ IF Present(c) THEN store[c].click_count < MaxClicks ELSE TRUE
          /\ before_every_request(ip, "/<short_id>", "GET", CodeReq(c))
          /\ Uncounted
    \/ \E ip \in Clients : \E c \in Codes7 :
          /\ Arriving
          /\ before_every_request(ip, "/api/info/<short_id>", "GET", CodeReq(c))
          /\ Uncounted
    \/ \E ip \in Clients :
          /\ Arriving
          /\ before_every_request(ip, "/health", "GET", NoReq)
          /\ Uncounted
    \/ /\ Routed("/shorten")
       /\ shorten_url_begin(1, out.req.org_url, out.req.expiry_days)
       /\ Uncounted
    \/ /\ Routed("/<short_id>")
       /\ get_original_url_begin(1, out.req.short_id)
       /\ Uncounted
    \/ Routed("/api/info/<short_id>") /\ info(1, out.req.short_id) /\ Uncounted
    \/ Routed("/health") /\ health /\ Uncounted
    \/ shorten_url_select(1) /\ Uncounted
    \/ shorten_url_now(1) /\ Uncounted
    \/ shorten_url_update(1) /\ Uncounted
    \/ generate_unique_short_id(1) /\ Uncounted
    \/ shorten_url_insert(1) /\ Uncounted
    \/ get_original_url_select(1) /\ Uncounted
    \/ get_original_url_check(1) /\ Uncounted
    \/ get_original_url_update(1) /\ Uncounted

SpecGate == Init /\ [][GateNext]_vars

---------------------------------------------------------------------------
(* Properties of sequential use (SpecSeq) *)

\* this step returns the response of a request of kind op
Returns(op) == out' # NoOut /\ out'.op = op

Succeeded(o) == o.op = "shorten" /\ o.resp.status \in {200, 201}

\* this step answers resolve(c), the response before it was a successful
\* shorten that returned c, and the record has not reached its expires_at
ResolveRightAfterShorten ==
    /\ Returns("resolve")
    /\ Succeeded(last)
    /\ last.resp.short_id = out'.req.short_id
    /\ now < last.resp.expires_at

WithScheme(u) ==
    IF startswith(u, HTTP) \/ startswith(u, HTTPS) THEN u ELSE HTTPS \o u

\* C1 as stated: a resolve(c) that directly follows the shorten that
\* returned c, before expires_at, redirects to the input itself when the
\* input starts with http:// or https://, otherwise to https:// + input.
C1_RoundTripOfInput ==
    [][ResolveRightAfterShorten =>
          /\ out'.resp.status = 302
          /\ out'.resp.org_url = WithScheme(last.req.org_url.s)]_vars

\* C1 (amended): a resolve(c) that directly follows the shorten that
\* returned c, before expires_at, redirects to the input with its
\* surrounding whitespace removed when that starts with http:// or
\* https://, otherwise to https:// + the input with its surrounding
\* whitespace removed; this is the URL the record holds.
C1_RoundTrip ==
    [][ResolveRightAfterShorten =>
          /\ out'.resp.status = 302
          /\ out'.resp.org_url = WithScheme(strip(last.req.org_url.s))
          /\ out'.resp.org_url = store[out'.req.short_id].org_url]_vars

\* a padded input was shortened and the resolve right after it redirected
C1_Witness ==
    /\ Succeeded(prev)
    /\ prev.req.org_url = Str(U_padded)
    /\ last.op = "resolve"
    /\ last.req.short_id = prev.resp.short_id
    /\ last.resp.status = 302
    /\ last.resp.org_url = U_https

\* the live rows holding the URL that the shorten answered by this step
\* was asked for
LiveRowsOfAnswered ==
    {c \in Codes : /\ Live(c, now)
                   /\ store[c].org_url = normalize_url(out'.req.org_url).v}

DaysOfAnswered == parse_expiry_days(body_expiry_days(out'.req.expiry_days)).v

\* C2: when a sequential shorten(u, d) finds a stored, unexpired record of
\* u, it answers with that record's code, the store afterwards differs only
\* in that record's expires_at, which is the time of the call + d; and a
\* shorten that follows a successful shorten of the same URL while that
\* record is unexpired answers with the same code.
C2_DedupIdempotent ==
    [][Returns("shorten") /\ out'.resp.status # 400 =>
          /\ \A c \in LiveRowsOfAnswered :
                /\ out'.resp.status = 200
                /\ out'.resp.short_id = c
                /\ out'.resp.expires_at = now + DaysOfAnswered
                /\ store' = [store EXCEPT ![c].expires_at = now + DaysOfAnswered]
          /\ ( /\ Succeeded(last)
               /\ normalize_url(last.req.org_url) = normalize_url(out'.req.org_url)
               /\ ~IsExpired(last.resp.expires_at, now) )
             => out'.resp.short_id = last.resp.short_id]_vars

\* a record was created with one day to live and reused, in the same
\* instant, with two: its expiry is the later call's, not the sum
C2_Witness ==
    /\ prev.op = "shorten" /\ prev.resp.status = 201
    /\ last.op = "shorten" /\ last.resp.status = 200
    /\ last.resp.short_id = prev.resp.short_id
    /\ prev.req.expiry_days = DaysInt(1)
    /\ last.req.expiry_days = DaysInt(2)
    /\ prev.resp.expires_at = 1
    /\ last.resp.expires_at = 2
    /\ store[last.resp.short_id].expires_at = 2

\* C3: a resolve of a code whose record's expires_at is in the past at the
\* time of the call deletes the record and answers 410, never a redirect; a
\* resolve of a code that has no record answers 404, so the resolve that
\* follows a 410 on the same code answers 404.
C3_Expiry ==
    [][Returns("resolve") =>
          LET c == out'.req.short_id
          IN /\ ( /\ Present(c)
                  /\ store[c].expires_at # Null
                  /\ store[c].expires_at < now )
                => (out'.resp.status = 410 /\ store'[c] = NoRow)
             /\ ~Present(c) => out'.resp.status = 404
             /\ ( /\ last.op = "resolve"
                  /\ last.req.short_id = c
                  /\ last.resp.status = 410 )
                => out'.resp.status = 404]_vars

\* an expired code was resolved twice in a row: 410, then 404
C3_Witness ==
    /\ prev.op = "resolve" /\ prev.resp.status = 410
    /\ last.op = "resolve" /\ last.resp.status = 404
    /\ last.req.short_id = prev.req.short_id
    /\ prev.resp.expires_at < now

\* C10 as stated: a resolve issued at a time t >= expires_at of the code's
\* record, t = expires_at included, does not return the target URL.
C10_InvalidFromExpiry ==
    [][Returns("resolve") =>
          LET c == out'.req.short_id
          IN ( /\ Present(c)
               /\ store[c].expires_at # Null
               /\ now >= store[c].expires_at )
             => out'.resp.status # 302]_vars

\* C10 (amended): a resolve issued at a time t > expires_at of the code's
\* record does not return the target URL; issued at t = expires_at it still
\* redirects to the target URL and keeps the record.
C10_ExpiryBoundary ==
    [][Returns("resolve") =>
          LET c == out'.req.short_id
          IN /\ ( /\ Present(c)
                  /\ store[c].expires_at # Null
                  /\ now > store[c].expires_at )
                => out'.resp.status # 302
             /\ ( /\ Present(c)
                  /\ store[c].expires_at = now )
                => /\ out'.resp.status = 302
                   /\ out'.resp.org_url = store[c].org_url
                   /\ store'[c] # NoRow]_vars

\* a resolve was answered with a redirect at the very instant of expires_at
C10_Witness ==
    /\ last.op = "resolve"
    /\ last.resp.status = 302
    /\ last.resp.expires_at = now
    /\ Present(last.req.short_id)
    /\ store[last.req.short_id].last_accessed = now

---------------------------------------------------------------------------
(* Properties of concurrent use (Spec) *)

\* C4: in every state reached by any interleaving of the handlers and the
\* reaper, the click_count of a stored record equals the number of
\* resolves of its code that were answered with a redirect since the
\* record was created.
C4_ClickAccounting ==
    \A c \in Codes : Present(c) => store[c].click_count = clicks_ok[c]

\* two overlapping resolves of one code have both been answered with a
\* redirect, and the record counts both
C4_Witness ==
    \E c \in Codes :
        /\ Present(c)
        /\ store[c].click_count = 2
        /\ out.op = "resolve" /\ out.req.short_id = c /\ out.resp.status = 302

LiveRowsOf(u) == {c \in Codes : Live(c, now) /\ store[c].org_url = u}

StoredUrls == {store[c].org_url : c \in {d \in Codes : Present(d)}}

\* C8 as stated: in every state, concurrent shortens of one URL included,
\* at most one unexpired record exists per target URL.
C8_OneLiveRowPerUrl ==
    \A u \in StoredUrls : Cardinality(LiveRowsOf(u)) <= 1

\* C8 (amended): in every state, at most one unexpired record exists per
\* target URL for which no two shorten calls have overlapped in time; two
\* overlapping shorten calls of a URL can leave two unexpired records of it.
C8_OneLiveRowUnlessOverlap ==
    \A u \in StoredUrls : u \notin overlapped => Cardinality(LiveRowsOf(u)) <= 1

\* a second shorten of a stored URL has been answered while resolves and
\* the reaper ran, no two shortens overlapped, and the URL has one record
C8_Witness ==
    /\ overlapped = {}
    /\ out.op = "shorten" /\ out.resp.status = 200
    /\ \E p \in Procs : h[p].op = "resolve"
    /\ Cardinality(LiveRowsOf(normalize_url(out.req.org_url).v)) = 1

---------------------------------------------------------------------------
(* Properties of the rate limiter (SpecRate) *)

\* C5: for each client, no 60 seconds hold more than 30 admitted attempts;
\* an attempt is rejected exactly when 30 admissions lie in the 60 seconds
\* before it, so the 31st attempt within 60 seconds of 30 admitted ones is
\* rejected and an attempt made when every recorded admission is more than
\* 60 seconds old is admitted.
C5_SlidingWindow ==
    \A ip \in Clients :
        /\ \A t \in {admitted[ip][j] : j \in 1..Len(admitted[ip])} :
              Cardinality(AdmittedWithin(ip, t)) <= RATE_LIMIT
        /\ last_attempt[ip].made =>
              /\ last_attempt[ip].limited <=> last_attempt[ip].recent >= RATE_LIMIT
              /\ last_attempt[ip].limited \/
                    admitted[ip][Len(admitted[ip])] = last_attempt[ip].at

\* a client was rejected on its 31st attempt and, once its admissions were
\* older than 60 seconds, admitted again
C5_Witness ==
    \E ip \in Clients :
        /\ last_attempt[ip].ever_limited
        /\ ~last_attempt[ip].limited
        /\ Len(admitted[ip]) > RATE_LIMIT
        /\ AdmittedWithin(ip, last_attempt[ip].at) = {Len(admitted[ip])}

---------------------------------------------------------------------------
(* Properties of request validation (SpecVal) *)

\* an expiry_days value that is an integer: an int, a float without a
\* fraction, a string of decimal digits
IntegerDays(d) ==
    \/ d.k = "int"
    \/ d.k = "float" /\ d.n % 10 = 0
    \/ d.k = "str" /\ int(d).ok

AcceptableDays(d) ==
    \/ d.k \in {"omitted", "null"}
    \/ IntegerDays(d) /\ int(d).v >= 1 /\ int(d).v <= 365

\* C6 as stated: a shorten of a valid URL succeeds when expiry_days is an
\* integer of 1..365 or omitted, and is answered 400 for every other
\* expiry_days value, a fractional number included.
C6_ExpiryDaysValidated ==
    (out.op = "shorten" /\ normalize_url(out.req.org_url).ok) =>
        IF AcceptableDays(out.req.expiry_days)
        THEN out.resp.status \in {200, 201}
        ELSE out.resp.status = 400

\* the scheme an input carries, and whether it names a host
InputScheme(raw) == urlparse(strip(raw)).scheme

InputHasHost(raw) ==
    LET u == strip(raw)
    IN IF InputScheme(raw) = <<>>
       THEN urlparse(HTTPS \o u).netloc # <<>>
       ELSE urlparse(u).netloc # <<>>

\* C7 as stated: a shorten of an input whose scheme is neither http nor
\* https, or that names no host, is answered 400 and stores no record.
C7_SchemeValidated ==
    ( /\ out.op = "shorten"
      /\ ~out.req.org_url.none
      /\ \/ InputScheme(out.req.org_url.s) \notin
                {<<>>, <<"h","t","t","p">>, <<"h","t","t","p","s">>}
         \/ ~InputHasHost(out.req.org_url.s) )
    => out.resp.status = 400

\* C9 as stated: the code generate_unique_short_id returns is not the code
\* of a record in the store, whichever draws it made, the length-8 fallback
\* after 10 colliding draws included.
C9_GeneratedCodeUnused ==
    \A p \in Procs : h[p].pc = "s_insert" => ~Present(h[p].short_id)

---------------------------------------------------------------------------
(* Properties of the request gate (SpecGate) *)

\* this step is a decision of before_every_request
GateStep == out'.op = "admitted" \/ (out' # NoOut /\ out'.resp.status = 429)

\* q holds no timestamp that old does not: it is old without some of its
\* oldest entries
IsSuffix(q, old) ==
    /\ Len(q) <= Len(old)
    /\ q = SubSeq(old, Len(old) - Len(q) + 1, Len(old))

\* C11: a request to resolve, info or health is always let through and
\* leaves every window as it is; a shorten attempt that is rejected as
\* rate-limited is answered 429, leaves the store unchanged and adds no
\* timestamp to its client's window; no decision changes the window of a
\* client other than the one that sent the request.
C11_GateFrame ==
    [][GateStep =>
          /\ gate'.path # "/shorten" =>
                /\ out'.op = "admitted"
                /\ UNCHANGED <<request_log, admitted, last_attempt>>
          /\ out'.op # "admitted" =>
                /\ gate'.path = "/shorten" /\ out'.op = "shorten"
                /\ UNCHANGED <<store, h, clicks_ok>>
                /\ IsSuffix(request_log'[gate'.ip], request_log[gate'.ip])
                /\ admitted'[gate'.ip] = admitted[gate'.ip]
          /\ \A ip \in Clients \ {gate'.ip} :
                request_log'[ip] = request_log[ip]]_vars

\* a client whose window is full and whose last shorten attempt was rejected
\* is let through to resolve, while another client's window holds
\* timestamps and the store holds a record
C11_Witness ==
    /\ out.op = "admitted"
    /\ gate.ip = "c1" /\ gate.path = "/<short_id>"
    /\ last_attempt["c1"].limited
    /\ Len(request_log["c1"]) = RATE_LIMIT
    /\ request_log["c2"] # <<>>
    /\ \E c \in Codes : Present(c)

---------------------------------------------------------------------------
(* Further properties of concurrent use (Spec) *)

\* C12 as stated: when shorten's INSERT uses a code that is already in the
\* store, the stored record is left as it is and shorten goes back to
\* allocate another code, so that every shorten that reaches its INSERT is
\* answered with success and none with an internal error.
C12_DuplicateInsertRetried ==
    [][\A p \in Procs :
          (h[p].pc = "s_insert" /\ h'[p].pc # "s_insert") =>
              IF Present(h[p].short_id)
              THEN /\ store' = store
                   /\ h'[p].pc = "s_gen"
              ELSE /\ out'.op = "shorten"
                   /\ out'.resp.status = 201]_vars

\* C14: the DELETE of a reaper cycle removes exactly the records whose
\* expires_at is present and strictly before the now_str the cycle read;
\* every other record, one that a shorten is about to extend included,
\* stays in the store with every field as it was, and no record that is
\* unexpired at the time of the DELETE is removed.
C14_SweepEffect ==
    [][(reaper.pc = "sweep" /\ reaper'.pc = "sleep") =>
          /\ \A c \in Codes :
                IF /\ Present(c)
                   /\ store[c].expires_at # Null
                   /\ store[c].expires_at < reaper.now_str
                THEN store'[c] = NoRow
                ELSE store'[c] = store[c]
          /\ \A c \in Codes : Live(c, now) => store'[c] = store[c]]_vars

\* a cycle has just removed an expired record and kept an unexpired one
\* while a shorten stood before its UPDATE of expires_at
C14_Witness ==
    /\ reaper.pc = "sleep"
    /\ reaper.swept # {}
    /\ \A c \in reaper.swept : ~Present(c)
    /\ \E c \in Codes : Live(c, now)
    /\ \E p \in Procs : h[p].pc = "s_update"

\* C17: the sweep of the cleanup thread, the lazy delete of a resolve and the
\* delete-expired step of a shorten, aimed at the same expired code in any
\* order, each complete without an error whether or not the row is still
\* there, leave the row absent, and the resolve answers 410 or 404 without
\* the target URL.
C17_IdempotentDelete ==
    [][/\ \A p \in Procs :
             (h[p].pc = "r_delete" /\ h'[p].pc # "r_delete") =>
                 /\ store'[h[p].short_id] = NoRow
                 /\ out'.op = "resolve"
                 /\ out'.resp.status = 410
                 /\ out'.resp.org_url = <<>>
       /\ \A p \in Procs :
             (h[p].pc = "r_select" /\ h'[p].pc # "r_select"
                  /\ ~Present(h[p].short_id)) =>
                 /\ store'[h[p].short_id] = NoRow
                 /\ out'.op = "resolve"
                 /\ out'.resp.status = 404
                 /\ out'.resp.org_url = <<>>
       /\ \A p \in Procs :
             (h[p].pc = "s_delete" /\ h'[p].pc # "s_delete") =>
                 /\ store'[h[p].short_id] = NoRow
                 /\ h'[p].pc = "s_gen"
                 /\ out' = NoOut
       /\ (reaper.pc = "sweep" /\ reaper'.pc # "sweep") =>
             /\ reaper'.pc = "sleep"
             /\ reaper'.failed = reaper.failed
             /\ \A c \in Codes :
                    (store[c] = NoRow
                       \/ (store[c].expires_at # Null
                              /\ store[c].expires_at < reaper.now_str))
                        => store'[c] = NoRow]_vars

\* The cleanup thread has swept the code, a resolve that had read the row as
\* expired has then run its DELETE on the absent row and answered 410, and a
\* shorten that had read the same row is about to delete it once more
C17_Witness ==
    /\ out.op = "resolve"
    /\ out.resp.status = 410
    /\ out.resp.short_id \in reaper.swept
    /\ reaper.pc = "sleep"
    /\ store[out.resp.short_id] = NoRow
    /\ \E p \in Procs : h[p].pc = "s_delete" /\ h[p].short_id = out.resp.short_id

\* C18: no live record is ever deleted: whenever a step removes a row, that
\* row's expires_at was present and earlier than the time at which the
\* DELETE ran; so a resolve that read the row as expired does not delete it
\* once a shorten has moved its expires_at into the future.
C18_NoLiveDelete ==
    [][\A c \in Codes :
          (Present(c) /\ store'[c] = NoRow) =>
              /\ store[c].expires_at # Null
              /\ store[c].expires_at < now]_vars

\* C19: whenever shorten returns success with (code, expires_at), the store
\* holds at that moment a row with that code, the normalized target URL and
\* that expires_at, also when the row that shorten found was removed by the
\* cleanup thread or a resolve before shorten's UPDATE.
C19_AnswerBacked ==
    Succeeded(out) =>
        /\ Present(out.resp.short_id)
        /\ store[out.resp.short_id].org_url = normalize_url(out.req.org_url).v
        /\ store[out.resp.short_id].expires_at = out.resp.expires_at

\* the fields in which two rows differ
Fields == {"org_url", "created_at", "expires_at", "click_count", "last_accessed"}

Changed(old, new) == {f \in Fields : old[f] # new[f]}

\* C20: while a record is stored, its code, target URL and created_at never
\* change; a successful resolve changes only click_count and last_accessed
\* of the record it resolves, a shorten that reuses a record changes only
\* its expires_at, info changes nothing, and no step changes a field of a
\* record other than the one it addresses.
C20_FieldImmutability ==
    [][/\ \A c \in Codes :
             (Present(c) /\ store'[c] # NoRow) =>
                 /\ "org_url" \notin Changed(store[c], store'[c])
                 /\ "created_at" \notin Changed(store[c], store'[c])
                 /\ Changed(store[c], store'[c]) # {} =>
                        \E p \in Procs :
                           /\ h[p].short_id = c
                           /\ h'[p].pc = "idle"
                           /\ \/ /\ h[p].pc = "r_update"
                                 /\ out'.resp.status = 302
                                 /\ Changed(store[c], store'[c])
                                        \subseteq {"click_count", "last_accessed"}
                              \/ /\ h[p].pc = "s_update"
                                 /\ out'.resp.status = 200
                                 /\ Changed(store[c], store'[c]) = {"expires_at"}
       /\ (out' # NoOut /\ out'.op = "info") => store' = store]_vars

\* A shorten has just reused a record that had been resolved before: the
\* record has the new expires_at and still has its click and its
\* last_accessed
C20_Witness ==
    /\ out.op = "shorten"
    /\ out.resp.status = 200
    /\ Present(out.resp.short_id)
    /\ store[out.resp.short_id].click_count >= 1
    /\ store[out.resp.short_id].last_accessed # Null
    /\ store[out.resp.short_id].expires_at = out.resp.expires_at
    /\ store[out.resp.short_id].expires_at
          > store[out.resp.short_id].created_at + out.req.expiry_days.n

---------------------------------------------------------------------------
(* Properties of the cleanup thread (SpecReap) *)

ExpiredRow(c) ==
    Present(c) /\ store[c].expires_at # Null /\ store[c].expires_at < now

\* C15: the cleanup loop starts a cycle again and again, also after cycles
\* that raised; and every record whose expires_at has passed is eventually
\* removed from the store, unless a shorten renews it first, without any
\* resolve or shorten having to touch it.
C15_EagerReclamation ==
    /\ []<>(reaper.pc = "sweep")
    /\ \A c \in Codes : ExpiredRow(c) ~> ~ExpiredRow(c)

\* after a cycle that raised, a later cycle removed the expired record and
\* no handler was running
C15_Witness ==
    /\ reaper.failed
    /\ reaper.pc = "sleep"
    /\ reaper.swept # {}
    /\ \A c \in Codes : ~Present(c)
    /\ h[1].pc = "idle"

---------------------------------------------------------------------------
(* The rate limiter with threads inside it at the same time (SpecRateConc) *)

\* C16: with concurrent handler threads interleaving the prune, the check
\* and the append on the shared request_log, a client is still never
\* admitted more than RATE_LIMIT times within RATE_WINDOW_SEC seconds and
\* its queue never holds more than RATE_LIMIT timestamps.
C16_ConcurrentLimit ==
    \A ip \in Clients :
        /\ Len(request_log[ip]) <= RATE_LIMIT
        /\ \A i \in 1..Len(admitted[ip]) :
               Cardinality({j \in 1..Len(admitted[ip]) :
                               /\ admitted[ip][j] <= admitted[ip][i]
                               /\ admitted[ip][i] - admitted[ip][j]
                                      < RATE_WINDOW_SEC}) <= RATE_LIMIT

---------------------------------------------------------------------------
(* Further properties of sequential use (SpecSeq) *)

\* C13 as stated: over any sequence of shorten calls, the expires_at of a
\* record that stays in the store never decreases, and a record without
\* expires_at is never given one.
C13_ExpiryNeverDecreases ==
    [][\A c \in Codes :
          (Present(c) /\ store'[c] # NoRow) =>
              IF store[c].expires_at = Null
              THEN store'[c].expires_at = Null
              ELSE store'[c].expires_at >= store[c].expires_at]_vars

====
